---- MODULE Spec2Model ----
(***************************************************************************)
(* Todo-list application: filter synchronizer (debounced URL commit),      *)
(* page orchestrator (Home), list renderer (TodoList) and the server       *)
(* actions createTodo / removeTodo / updateTodoStatus.                      *)
(*                                                                         *)
(* Strings are sequences of one-character strings.  The fixed words of the *)
(* program (parameter names, the two statuses, path segments) are single   *)
(* tokens that behave as unreserved characters.                            *)
(***************************************************************************)
EXTENDS Integers, Sequences, FiniteSets, TLC

VARIABLES
    \* --- filter round trip (commit -> URL -> Home -> list request)
    fState, fUrl, fRead, fReq, fPc,
    \* --- filter state synchronizer (README, URL-Based State)
    now, mounted, query, status, timers, url, initUrl,
    effectRuns, nChanges, lastInput, burstLen, commitsSince, lastCommit,
    \* --- item store, Home, TodoList and the server actions
    store, nextId, navs, navSeq, requests, reads, page, stale, revalidations,
    todo, loading, nCalls, calls, done, returnedOk, toggleLog

urlVars  == <<fState, fUrl, fRead, fReq, fPc>>
syncVars == <<now, mounted, query, status, timers, url, initUrl,
             effectRuns, nChanges, lastInput, burstLen, commitsSince, lastCommit>>
appVars  == <<store, nextId, navs, navSeq, requests, reads, page, stale, revalidations,
             todo, loading, nCalls, calls, done, returnedOk, toggleLog>>
vars     == <<urlVars, syncVars, appVars>>

----------------------------------------------------------------------------
(* Bounds *)

MaxQueryLen == 2

MaxTime == 1500

MaxChanges == 3

MaxNav == 2

MaxCalls == 2

----------------------------------------------------------------------------
(* Strings and URL encoding *)

\* Characters a typed query is drawn from.
Alphabet == {"a", "&", "=", "+", " ", "%"}

EmptyStr == <<>>

RECURSIVE StringsUpTo(_)
StringsUpTo(n) ==
    IF n = 0 THEN {EmptyStr}
    ELSE LET shorter == StringsUpTo(n - 1)
         IN  shorter \cup {Append(s, c) : s \in shorter, c \in Alphabet}

Queries == StringsUpTo(MaxQueryLen)

\* The <select> options of the status filter: All, Pending, Completed.
StatusOptions == {EmptyStr, <<"pending">>, <<"completed">>}

RECURSIVE Concat(_)
Concat(ss) == IF ss = <<>> THEN <<>> ELSE Head(ss) \o Concat(Tail(ss))

IndexOf(s, c) ==
    IF \E i \in 1..Len(s) : s[i] = c
    THEN CHOOSE i \in 1..Len(s) : s[i] = c /\ \A j \in 1..(i - 1) : s[j] # c
    ELSE 0

RECURSIVE SplitOn(_, _)
SplitOn(s, sep) ==
    LET i == IndexOf(s, sep)
    IN  IF i = 0 THEN <<s>>
        ELSE <<SubSeq(s, 1, i - 1)>> \o SplitOn(SubSeq(s, i + 1, Len(s)), sep)

\* application/x-www-form-urlencoded byte serializer, one character.
EncodeChar(c) ==
    CASE c = " " -> <<"+">>
      [] c = "&" -> <<"%", "2", "6">>
      [] c = "=" -> <<"%", "3", "D">>
      [] c = "+" -> <<"%", "2", "B">>
      [] c = "%" -> <<"%", "2", "5">>
      [] c = "#" -> <<"%", "2", "3">>
      [] c = "?" -> <<"%", "3", "F">>
      [] OTHER   -> <<c>>

RECURSIVE FormEncode(_)
FormEncode(s) ==
    IF s = <<>> THEN <<>> ELSE EncodeChar(Head(s)) \o FormEncode(Tail(s))

HexDigits == {"2", "3", "5", "6", "B", "D", "F", "a"}

\* The character a percent escape stands for.
HexChar(h) ==
    CASE h = <<"2", "6">> -> "&"
      [] h = <<"3", "D">> -> "="
      [] h = <<"2", "B">> -> "+"
      [] h = <<"2", "5">> -> "%"
      [] h = <<"2", "3">> -> "#"
      [] h = <<"3", "F">> -> "?"
      [] OTHER            -> "\\uFFFD"

\* application/x-www-form-urlencoded decoding: "+" is a space, %XY a byte,
\* a "%" not followed by two hex digits stays as it is.
RECURSIVE FormDecode(_)
FormDecode(s) ==
    IF s = <<>> THEN <<>>
    ELSE IF Head(s) = "+" THEN <<" ">> \o FormDecode(Tail(s))
    ELSE IF Head(s) = "%" /\ Len(s) >= 3 /\ s[2] \in HexDigits /\ s[3] \in HexDigits
         THEN <<HexChar(<<s[2], s[3]>>)>> \o FormDecode(SubSeq(s, 4, Len(s)))
    ELSE <<Head(s)>> \o FormDecode(Tail(s))

\* The query part of a URL: after the first "?", up to the fragment.
QueryPart(u) ==
    LET h  == IndexOf(u, "#")
        nf == IF h = 0 THEN u ELSE SubSeq(u, 1, h - 1)
        q  == IndexOf(nf, "?")
    IN  IF q = 0 THEN <<>> ELSE SubSeq(nf, q + 1, Len(nf))

\* name=value pairs of a query string, decoded, in order.
Pairs(qs) ==
    LET segs == SelectSeq(SplitOn(qs, "&"), LAMBDA g : g # <<>>)
    IN  [k \in 1..Len(segs) |->
            LET e == IndexOf(segs[k], "=")
            IN  IF e = 0
                THEN [name |-> FormDecode(segs[k]), value |-> <<>>]
                ELSE [name  |-> FormDecode(SubSeq(segs[k], 1, e - 1)),
                      value |-> FormDecode(SubSeq(segs[k], e + 1, Len(segs[k])))]]

ParamNames == {"query", "status"}

\* The parameters object of a URL: a key is in the domain only if the URL
\* carries it; the first occurrence of a name gives its value.
ParseParams(u) ==
    LET ps   == Pairs(QueryPart(u))
        has  == {n \in ParamNames : \E k \in 1..Len(ps) : ps[k].name = <<n>>}
    IN  [n \in has |->
            ps[CHOOSE k \in 1..Len(ps) :
                   /\ ps[k].name = <<n>>
                   /\ \A j \in 1..(k - 1) : ps[j].name # <<n>>].value]

\* ParamsToString without the encoding of the values.
ParamsToStringRaw(q, s) ==
    LET qp == IF Len(q) > 0 THEN <<(<<"query">> \o <<"=">> \o q)>> ELSE <<>>
        sp == IF Len(s) > 0 THEN <<(<<"status">> \o <<"=">> \o s)>> ELSE <<>>
        ps == qp \o sp
    IN  IF Len(ps) = 2 THEN ps[1] \o <<"&">> \o ps[2] ELSE Concat(ps)

\* URLSearchParams.toString() of the debounce callback.
ParamsToString(q, s) ==
    LET qp == IF Len(q) > 0 THEN <<(<<"query">> \o <<"=">> \o FormEncode(q))>> ELSE <<>>
        sp == IF Len(s) > 0 THEN <<(<<"status">> \o <<"=">> \o FormEncode(s))>> ELSE <<>>
        ps == qp \o sp
    IN  IF Len(ps) = 2 THEN ps[1] \o <<"&">> \o ps[2] ELSE Concat(ps)

\* router.replace(`/?${params.toString()}`): the URL the commit navigates to.
CommitUrl(q, s) == <<"/", "?">> \o ParamsToString(q, s)

\* `x ?? ""` on a parameters object.
OrEmpty(p, n) == IF n \in DOMAIN p THEN p[n] ELSE EmptyStr

\* Home: const { query, status } = await searchParams.
SearchParams(u) == ParseParams(u)

\* Home: the template string handed to fetch.
ListRequestUrl(p) ==
    <<"/items", "?", "query", "=">> \o OrEmpty(p, "query")
        \o <<"&", "status", "=">> \o OrEmpty(p, "status")

\* The (query, status) the item API reads off a list request.
ApiFilter(req) ==
    LET p == ParseParams(req)
    IN  [query |-> OrEmpty(p, "query"), status |-> OrEmpty(p, "status")]

----------------------------------------------------------------------------
(* Filter round trip: one filter state carried through commit, Home's read  *)
(* of the URL and Home's list request.                                     *)

NoUrl == <<"about:blank">>

InitUrlVars ==
    /\ fState \in [query : Queries, status : StatusOptions]
    /\ fUrl = NoUrl
    /\ fRead = [query |-> EmptyStr, status |-> EmptyStr]
    /\ fReq = NoUrl
    /\ fPc = "input"

IdleUrlVars ==
    /\ fState = [query |-> EmptyStr, status |-> EmptyStr]
    /\ fUrl = NoUrl
    /\ fRead = [query |-> EmptyStr, status |-> EmptyStr]
    /\ fReq = NoUrl
    /\ fPc = "input"

Commit ==
    /\ fPc = "input"
    /\ fUrl' = CommitUrl(fState.query, fState.status)
    /\ fPc' = "committed"
    /\ UNCHANGED <<fState, fRead, fReq>>
    /\ UNCHANGED <<syncVars, appVars>>

HomeRead ==
    /\ fPc = "committed"
    /\ LET p == SearchParams(fUrl)
       IN  /\ fRead' = [query |-> OrEmpty(p, "query"), status |-> OrEmpty(p, "status")]
           /\ fReq' = ListRequestUrl(p)
    /\ fPc' = "requested"
    /\ UNCHANGED <<fState, fUrl>>
    /\ UNCHANGED <<syncVars, appVars>>

NextUrl ==
    \/ Commit
    \/ HomeRead

----------------------------------------------------------------------------
(* Filter state synchronizer: two pieces of local state and one effect     *)
(* that debounces them into the URL.  Time is in milliseconds; a pending   *)
(* timer fires when its delay has elapsed, so time does not pass a due     *)
(* timer.                                                                  *)

\* setTimeout(..., 500)
DebounceMs == 500

\* Amounts of time that pass between two events.
Steps == {200, 300}

\* Values typed into the search input.
TypedQueries == {EmptyStr, <<"a">>, <<"a", "&">>}

\* URLs the page is mounted on.
MountUrls == {<<"/">>} \cup {CommitUrl(q, s) : q \in TypedQueries, s \in StatusOptions}

\* const [query, setQuery] = useState("")
InitialQuery(u) == EmptyStr

\* const [status, setStatus] = useState("")
InitialStatus(u) == EmptyStr

\* Cleanup that clears nothing.
CleanupNone(ts, id) == ts

\* return () => clearTimeout(debounce): clears the timer of effect run `id`.
Cleanup(ts, id) == {t \in ts : t.id # id}

\* const debounce = setTimeout(() => {...}, 500) of effect run `id`; the
\* callback closes over the query and status of the render that ran it.
SetTimeout(ts, id, t, q, s) ==
    ts \cup {[id |-> id, due |-> t + DebounceMs, query |-> q, status |-> s]}

\* One run of the effect after a render whose dependencies changed:
\* cleanup of the previous run, then the body.
RunEffect(ts, id, t, q, s) == SetTimeout(Cleanup(ts, id - 1), id, t, q, s)

NoCommit == [at |-> -1, query |-> EmptyStr, status |-> EmptyStr]

InitSyncVars ==
    /\ initUrl \in MountUrls
    /\ url = initUrl
    /\ now = 0
    /\ mounted = TRUE
    /\ query = InitialQuery(initUrl)
    /\ status = InitialStatus(initUrl)
    /\ effectRuns = 1
    /\ timers = RunEffect({}, 1, 0, InitialQuery(initUrl), InitialStatus(initUrl))
    /\ nChanges = 0
    /\ lastInput = [kind |-> "mount", at |-> 0]
    /\ burstLen = 0
    /\ commitsSince = 0
    /\ lastCommit = NoCommit

IdleSyncVars ==
    /\ initUrl = <<"/">>
    /\ url = <<"/">>
    /\ now = 0
    /\ mounted = FALSE
    /\ query = EmptyStr
    /\ status = EmptyStr
    /\ effectRuns = 0
    /\ timers = {}
    /\ nChanges = 0
    /\ lastInput = [kind |-> "mount", at |-> 0]
    /\ burstLen = 0
    /\ commitsSince = 0
    /\ lastCommit = NoCommit

\* A state update followed by the render it causes: the effect runs again
\* only if [query, status] differs from the previous render's.
Render(q, s) ==
    /\ query' = q
    /\ status' = s
    /\ IF <<q, s>> # <<query, status>>
       THEN /\ effectRuns' = effectRuns + 1
            /\ timers' = RunEffect(timers, effectRuns + 1, now, q, s)
            /\ nChanges' = nChanges + 1
            /\ lastInput' = [kind |-> "change", at |-> now]
            /\ burstLen' = IF lastInput.kind = "change" /\ now - lastInput.at < DebounceMs
                           THEN burstLen + 1 ELSE 1
            /\ commitsSince' = 0
       ELSE UNCHANGED <<effectRuns, timers, nChanges, lastInput, burstLen, commitsSince>>
    /\ UNCHANGED <<now, mounted, url, initUrl, lastCommit>>
    /\ UNCHANGED <<urlVars, appVars>>

setQuery(v) ==
    /\ mounted
    /\ nChanges < MaxChanges
    /\ Render(v, status)

setStatus(v) ==
    /\ mounted
    /\ nChanges < MaxChanges
    /\ Render(query, v)

\* The debounce callback: router.replace with the captured values.
TimerFire(t) ==
    /\ t \in timers
    /\ t.due <= now
    /\ timers' = timers \ {t}
    /\ url' = CommitUrl(t.query, t.status)
    /\ commitsSince' = commitsSince + 1
    /\ lastCommit' = [at |-> now, query |-> t.query, status |-> t.status]
    /\ UNCHANGED <<now, mounted, query, status, initUrl, effectRuns, nChanges,
                   lastInput, burstLen>>
    /\ UNCHANGED <<urlVars, appVars>>

\* Unmount of an effect that returns no cleanup function.
UnmountNoCleanup ==
    /\ mounted
    /\ mounted' = FALSE
    /\ UNCHANGED <<timers, now, query, status, url, initUrl, effectRuns, nChanges,
                   lastInput, burstLen, commitsSince, lastCommit>>
    /\ UNCHANGED <<urlVars, appVars>>

\* The component unmounts: React runs the cleanup of the last effect run.
Unmount ==
    /\ mounted
    /\ mounted' = FALSE
    /\ timers' = Cleanup(timers, effectRuns)
    /\ UNCHANGED <<now, query, status, url, initUrl, effectRuns, nChanges,
                   lastInput, burstLen, commitsSince, lastCommit>>
    /\ UNCHANGED <<urlVars, appVars>>

Tick(dt) ==
    /\ now + dt <= MaxTime
    /\ \A t \in timers : t.due >= now + dt
    /\ now' = now + dt
    /\ UNCHANGED <<mounted, query, status, timers, url, initUrl, effectRuns,
                   nChanges, lastInput, burstLen, commitsSince, lastCommit>>
    /\ UNCHANGED <<urlVars, appVars>>

NextSync ==
    \/ \E v \in TypedQueries : setQuery(v)
    \/ \E v \in StatusOptions : setStatus(v)
    \/ \E t \in timers : TimerFire(t)
    \/ Unmount
    \/ \E dt \in Steps : Tick(dt)

----------------------------------------------------------------------------
(* Item store (external API), Home, TodoList and the server actions *)

syncRest == <<now, mounted, query, status, timers, initUrl, effectRuns,
              nChanges, lastInput, burstLen, commitsSince, lastCommit>>

\* Values typed into the "Add task to-do" input.
TaskInputs == {<<"b">>}

\* The item stores the page is first loaded against.
InitStores ==
    {{}, {[id |-> 1, task |-> <<"a">>, status |-> "pending"]}}

\* URLs a navigation (load, reload, URL replacement) goes to.
NavUrls == {<<"/">>, CommitUrl(<<"a">>, <<"pending">>)}

\* The error field of a non-2xx response body.
ApiErrorMessage == "task required"

\* What a write's fetch settles to: a rejection, or a response with a
\* status (ok or not) and a body (a JSON object without an error field, one
\* with an error field, or text that is not JSON).
WriteOutcomes ==
    {[kind |-> "reject", ok |-> FALSE, body |-> "none"]}
        \cup {[kind |-> "response", ok |-> TRUE, body |-> b] : b \in {"object", "bad"}}
        \cup {[kind |-> "response", ok |-> FALSE, body |-> b] :
                 b \in {"object", "error", "bad"}}

\* What Home's fetch settles to.
ReadOutcomes == {"reject", "notok", "ok", "badjson"}

Contains(s, sub) ==
    \E i \in 1..(Len(s) - Len(sub) + 1) : SubSeq(s, i, i + Len(sub) - 1) = sub

\* GET /items?query=&status= at the item API.
ApiList(items, f) ==
    {t \in items : /\ (f.status = EmptyStr \/ f.status = <<t.status>>)
                   /\ Contains(t.task, f.query)}

\* Opposite with the else branch writing "completed" too.
OppositeStuck(s) == "completed"

\* status === "pending" ? "completed" : "pending"
Opposite(s) == IF s = "pending" THEN "completed" ELSE "pending"

\* ApplyWrite with a toggle that flips the status the store holds.
ApplyWriteFlipStored(items, nid, c) ==
    CASE c.op = "create" ->
            items \cup {[id |-> nid, task |-> c.task, status |-> c.status]}
      [] c.op = "toggle" ->
            {IF t.id = c.id THEN [t EXCEPT !.status = Opposite(t.status)] ELSE t :
                 t \in items}
      [] c.op = "remove" ->
            {t \in items : t.id # c.id}

\* The write a call's request asks the item API for.
ApplyWrite(items, nid, c) ==
    CASE c.op = "create" ->
            items \cup {[id |-> nid, task |-> c.task, status |-> c.status]}
      [] c.op = "toggle" ->
            {IF t.id = c.id THEN [t EXCEPT !.status = Opposite(c.status)] ELSE t :
                 t \in items}
      [] c.op = "remove" ->
            {t \in items : t.id # c.id}

\* The item API answers 2xx to a PUT or DELETE only for an item it holds.
CanSucceed(items, c) == c.op = "create" \/ \E t \in items : t.id = c.id

NoResult == [success |-> FALSE, error |-> "pending"]
NoToast == [kind |-> "none", msg |-> ""]
NoOutcome == [kind |-> "none", ok |-> FALSE, body |-> "none"]

Success == [success |-> TRUE, error |-> ""]
Failure(msg) == [success |-> FALSE, error |-> msg]

\* catch (error): a rejected fetch (TypeError: fetch failed).
OnReject == [result |-> Failure("fetch failed"), trace |-> <<"return">>]

\* Finish with revalidatePath called before the response.ok check.
FinishRevalidateEarly(ok, body) ==
    IF body = "bad"
    THEN [result |-> Failure("Unexpected token"), trace |-> <<"return">>]
    ELSE IF ~ok
    THEN [result |-> Failure(IF body = "error" THEN ApiErrorMessage
                             ELSE "Unable to create todo"),
          trace  |-> <<"revalidatePath", "return">>]
    ELSE [result |-> Success, trace |-> <<"revalidatePath", "return">>]

\* The rest of a server action once fetch has resolved: response.json(),
\* the response.ok check, revalidatePath and the two returns.
Finish(ok, body) ==
    IF body = "bad"
    THEN [result |-> Failure("Unexpected token"), trace |-> <<"return">>]
    ELSE IF ~ok
    THEN [result |-> Failure(IF body = "error" THEN ApiErrorMessage
                             ELSE "Unable to create todo"),
          trace  |-> <<"return">>]
    ELSE [result |-> Success, trace |-> <<"revalidatePath", "return">>]

\* addTodo after `await createTodo(todo)`.
AddTodoResume(result, td, ld) ==
    IF ~result.success
    THEN [toast |-> [kind |-> "error", msg |-> "Todo not added!"],
          loading |-> ld, todo |-> td]
    ELSE [toast |-> [kind |-> "success", msg |-> "Todo added!"],
          loading |-> FALSE, todo |-> [task |-> EmptyStr, status |-> "pending"]]

\* What Home returns (or throws) for a settled fetch.
HomeResult(r, o, items) ==
    CASE o = "reject"  -> [kind |-> "error", todos |-> {}, seq |-> r.seq, outcome |-> o]
      [] o = "notok"   -> [kind |-> "panel", todos |-> {}, seq |-> r.seq, outcome |-> o]
      [] o = "badjson" -> [kind |-> "error", todos |-> {}, seq |-> r.seq, outcome |-> o]
      [] o = "ok"      -> [kind |-> "list", todos |-> ApiList(items, ApiFilter(r.req)),
                           seq |-> r.seq, outcome |-> o]

NewCall(n, op, id, st, task) ==
    [n |-> n, op |-> op, id |-> id, status |-> st, task |-> task,
     pc |-> "fetch", resp |-> NoOutcome, result |-> NoResult, trace |-> <<>>,
     toast |-> NoToast]

NoCall == NewCall(0, "none", 0, "", EmptyStr)

\* Home up to its fetch: read the search params, issue the list request.
StartRead(u) ==
    /\ navSeq' = navSeq + 1
    /\ requests' = requests + 1
    /\ reads' = reads \cup {[seq |-> navSeq + 1, req |-> ListRequestUrl(SearchParams(u))]}

InitAppVars ==
    /\ store \in InitStores
    /\ nextId = 2
    /\ navs = 0
    /\ navSeq = 1
    /\ requests = 1
    /\ reads = {[seq |-> 1, req |-> ListRequestUrl(SearchParams(url))]}
    /\ page = [kind |-> "blank", todos |-> {}, seq |-> 0, outcome |-> "none"]
    /\ stale = FALSE
    /\ revalidations = 0
    /\ todo = [task |-> EmptyStr, status |-> "pending"]
    /\ loading = FALSE
    /\ nCalls = 0
    /\ calls = {}
    /\ done = NoCall
    /\ returnedOk = 0
    /\ toggleLog = <<>>

IdleAppVars ==
    /\ store = {}
    /\ nextId = 2
    /\ navs = 0
    /\ navSeq = 0
    /\ requests = 0
    /\ reads = {}
    /\ page = [kind |-> "blank", todos |-> {}, seq |-> 0, outcome |-> "none"]
    /\ stale = FALSE
    /\ revalidations = 0
    /\ todo = [task |-> EmptyStr, status |-> "pending"]
    /\ loading = FALSE
    /\ nCalls = 0
    /\ calls = {}
    /\ done = NoCall
    /\ returnedOk = 0
    /\ toggleLog = <<>>

\* A navigation: the route is entered on URL u.
Navigate(u) ==
    /\ navs < MaxNav
    /\ navs' = navs + 1
    /\ url' = u
    /\ StartRead(u)
    /\ UNCHANGED <<store, nextId, page, stale, revalidations, todo, loading, nCalls, calls, done,
                   returnedOk, toggleLog>>
    /\ UNCHANGED <<urlVars, syncRest>>

\* The route is rendered again after revalidatePath("/").
Rerender ==
    /\ stale
    /\ stale' = FALSE
    /\ StartRead(url)
    /\ UNCHANGED <<navs, store, nextId, page, revalidations, todo, loading, nCalls, calls, done, returnedOk, toggleLog>>
    /\ UNCHANGED <<urlVars, syncVars>>

\* Home from the settling of its fetch to its return.
HomeSettle(r, o) ==
    /\ r \in reads
    /\ reads' = reads \ {r}
    /\ page' = HomeResult(r, o, store)
    /\ IF page'.kind = "list" /\ page.kind # "list"
       THEN /\ todo' = [task |-> EmptyStr, status |-> "pending"]
            /\ loading' = FALSE
       ELSE UNCHANGED <<todo, loading>>
    /\ UNCHANGED <<store, nextId, navs, navSeq, requests, stale, revalidations, nCalls, calls, done,
                   returnedOk, toggleLog>>
    /\ UNCHANGED <<urlVars, syncVars>>

\* onChange of the task input.
setTodo(v) ==
    /\ page.kind = "list"
    /\ v # todo.task
    /\ todo' = [task |-> v, status |-> "pending"]
    /\ UNCHANGED <<store, nextId, navs, navSeq, requests, reads, page, stale, revalidations,
                   loading, nCalls, calls, done, returnedOk, toggleLog>>
    /\ UNCHANGED <<urlVars, syncVars>>

\* addTodo up to `await createTodo(todo)`.
addTodo ==
    /\ page.kind = "list"
    /\ nCalls < MaxCalls
    /\ loading' = TRUE
    /\ nCalls' = nCalls + 1
    /\ calls' = calls \cup {NewCall(nCalls + 1, "create", 0, todo.status, todo.task)}
    /\ UNCHANGED done
    /\ UNCHANGED <<store, nextId, navs, navSeq, requests, reads, page, stale, revalidations,
                   todo, returnedOk, toggleLog>>
    /\ UNCHANGED <<urlVars, syncVars>>

\* onClick of a row's status button: updateTodoStatus(t.id, t.status).
ToggleClick(t) ==
    /\ page.kind = "list"
    /\ t \in page.todos
    /\ nCalls < MaxCalls
    /\ nCalls' = nCalls + 1
    /\ calls' = calls \cup {NewCall(nCalls + 1, "toggle", t.id, t.status, EmptyStr)}
    /\ UNCHANGED done
    /\ UNCHANGED <<store, nextId, navs, navSeq, requests, reads, page, stale, revalidations,
                   todo, loading, returnedOk, toggleLog>>
    /\ UNCHANGED <<urlVars, syncVars>>

\* onClick of a row's delete button: removeTodo(t.id).
RemoveClick(t) ==
    /\ page.kind = "list"
    /\ t \in page.todos
    /\ nCalls < MaxCalls
    /\ nCalls' = nCalls + 1
    /\ calls' = calls \cup {NewCall(nCalls + 1, "remove", t.id, "", EmptyStr)}
    /\ UNCHANGED done
    /\ UNCHANGED <<store, nextId, navs, navSeq, requests, reads, page, stale, revalidations,
                   todo, loading, returnedOk, toggleLog>>
    /\ UNCHANGED <<urlVars, syncVars>>

\* A server action from the settling of its fetch to its return; the item
\* API has applied the write if it answers 2xx.  The row buttons drop the
\* returned promise, so a toggle or a remove is finished when it returns.
ActionSettle(c, o) ==
    /\ c \in calls
    /\ c.pc = "fetch"
    /\ o.ok => CanSucceed(store, c)
    /\ LET f == IF o.kind = "reject" THEN OnReject ELSE Finish(o.ok, o.body)
           n == Cardinality({i \in 1..Len(f.trace) : f.trace[i] = "revalidatePath"})
           r == [c EXCEPT !.resp = o, !.result = f.result, !.trace = f.trace]
       IN  /\ IF c.op = "create"
              THEN /\ calls' = (calls \ {c}) \cup {[r EXCEPT !.pc = "returned"]}
                   /\ UNCHANGED done
              ELSE /\ calls' = calls \ {c}
                   /\ done' = [r EXCEPT !.pc = "done"]
           /\ revalidations' = revalidations + n
           /\ stale' = (stale \/ n > 0)
           /\ returnedOk' = returnedOk + (IF f.result.success THEN 1 ELSE 0)
    /\ store' = IF o.ok THEN ApplyWrite(store, nextId, c) ELSE store
    /\ nextId' = IF o.ok /\ c.op = "create" THEN nextId + 1 ELSE nextId
    /\ toggleLog' =
          IF o.ok /\ c.op = "toggle"
          THEN Append(toggleLog,
                 [id     |-> c.id,
                  snap   |-> c.status,
                  before |-> (CHOOSE t \in store : t.id = c.id).status,
                  after  |-> (CHOOSE t \in store' : t.id = c.id).status])
          ELSE toggleLog
    /\ UNCHANGED <<navs, navSeq, requests, reads, page, todo, loading, nCalls>>
    /\ UNCHANGED <<urlVars, syncVars>>

\* addTodo after `await createTodo(todo)`: the toast, the loading flag and
\* the reset of the input.
Resume(c) ==
    /\ c \in calls
    /\ c.pc = "returned"
    /\ calls' = calls \ {c}
    /\ LET a == AddTodoResume(c.result, todo, loading)
       IN  /\ done' = [c EXCEPT !.pc = "done", !.toast = a.toast]
           /\ todo' = a.todo
           /\ loading' = a.loading
    /\ UNCHANGED <<store, nextId, navs, navSeq, requests, reads, page, stale, revalidations,
                   nCalls, returnedOk, toggleLog>>
    /\ UNCHANGED <<urlVars, syncVars>>

\* One visit of the page: loaded once, then rendered again whenever
\* revalidatePath has marked the route stale.
NextApp ==
    \/ Rerender
    \/ \E r \in reads, o \in ReadOutcomes : HomeSettle(r, o)
    \/ \E v \in TaskInputs : setTodo(v)
    \/ addTodo
    \/ \E t \in page.todos : ToggleClick(t)
    \/ \E t \in page.todos : RemoveClick(t)
    \/ \E c \in calls, o \in WriteOutcomes : ActionSettle(c, o)
    \/ \E c \in calls : Resume(c)

\* Navigations of the page against an item store that no write changes.
NextRead ==
    \/ \E u \in NavUrls : Navigate(u)
    \/ \E r \in reads, o \in ReadOutcomes : HomeSettle(r, o)

----------------------------------------------------------------------------
(* Claims about the filter round trip and the synchronizer *)

\* The filter a URL carries, an absent parameter read as the empty string.
FilterOf(u) ==
    [query  |-> OrEmpty(ParseParams(u), "query"),
     status |-> OrEmpty(ParseParams(u), "status")]

\* The URL as the commits so far have left it.
UrlAfterCommits ==
    IF lastCommit = NoCommit THEN initUrl
    ELSE CommitUrl(lastCommit.query, lastCommit.status)

C2_FiltersPersistOnReload ==
    nChanges = 0 =>
        /\ [query |-> query, status |-> status] = FilterOf(initUrl)
        /\ FilterOf(url) = FilterOf(initUrl)

C10_RequestCarriesUrlFilter ==
    fPc = "requested" => ApiFilter(fReq) = FilterOf(fUrl)

----------------------------------------------------------------------------
(* Claims about the server actions, Home and TodoList *)

\* The calls whose server action has returned.
Returned == {c \in calls \cup {done} : c.pc \in {"returned", "done"}}

HttpOk(c) == c.resp.kind = "response" /\ c.resp.ok

\* C3: a write operation never throws and its result follows the HTTP
\* status: {success: true} whenever the response status is success,
\* {success: false, error} otherwise.
C3_WriteResultFollowsHttpStatus ==
    \A c \in Returned :
        /\ c.trace # <<>> /\ c.trace[Len(c.trace)] = "return"
        /\ HttpOk(c) => c.result = Success
        /\ ~HttpOk(c) => (~c.result.success /\ c.result.error # "")

\* C4: a write operation that returns {success: true} has emitted
\* revalidatePath("/") exactly once, before returning; one that returns
\* {success: false} has not emitted it; nothing is emitted before the fetch
\* settles.
C4_InvalidationOnSuccessOnly ==
    /\ \A c \in Returned :
          IF c.result.success
          THEN c.trace = <<"revalidatePath", "return">>
          ELSE c.trace = <<"return">>
    /\ \A c \in calls : c.pc = "fetch" => c.trace = <<>>
    /\ revalidations = returnedOk

C4_Witness ==
    /\ done.pc = "done" /\ done.op = "remove" /\ done.result.success
    /\ \E c \in calls : c.pc = "returned" /\ ~c.result.success
    /\ revalidations = 1

\* C5: a failed list read, by a rejected fetch or by a non-success status,
\* ends in the error panel, with one request per navigation.
C5_FailedReadShowsPanel ==
    page.outcome \in {"reject", "notok"} =>
        /\ page.kind = "panel"
        /\ requests = navSeq

\* C6: a create that fails with API error message m is notified with m
\* verbatim and emits no invalidation signal.
C6_CreateFailureShowsApiMessage ==
    (/\ done.pc = "done" /\ done.op = "create"
     /\ done.resp.kind = "response" /\ ~done.resp.ok /\ done.resp.body = "error")
        => /\ done.toast.msg = ApiErrorMessage
           /\ done.trace = <<"return">>

\* Two toggles of one item applied one after the other, no other toggle of
\* that item between them.
ConsecutiveToggles ==
    {p \in (1..Len(toggleLog)) \X (1..Len(toggleLog)) :
        /\ p[1] < p[2]
        /\ toggleLog[p[1]].id = toggleLog[p[2]].id
        /\ \A k \in (p[1] + 1)..(p[2] - 1) : toggleLog[k].id # toggleLog[p[1]].id}

\* A toggle issued from a snapshot that showed the item's stored status.
Fresh(e) == e.snap = e.before

\* C7 as stated: toggling an item twice returns it to its original status,
\* whatever the interleaving of the two calls with the re-fetch.
C7_ToggleTwiceRestores ==
    \A p \in ConsecutiveToggles : toggleLog[p[2]].after = toggleLog[p[1]].before

\* C7 amended: toggling an item twice returns it to its original status when
\* each of the two toggles is issued from a snapshot showing the item's
\* stored status (the displayed snapshot was refreshed between them).
C7_ToggleTwiceRestoresWhenRefreshed ==
    \A p \in ConsecutiveToggles :
        (Fresh(toggleLog[p[1]]) /\ Fresh(toggleLog[p[2]]))
            => toggleLog[p[2]].after = toggleLog[p[1]].before

C7_Witness ==
    \E p \in ConsecutiveToggles :
        /\ Fresh(toggleLog[p[1]]) /\ Fresh(toggleLog[p[2]])
        /\ toggleLog[p[1]].before = "pending"
        /\ toggleLog[p[1]].after = "completed"
        /\ toggleLog[p[2]].after = "pending"

\* C8: a finished toggle or delete has surfaced its success or failure as a
\* notification.
C8_RowControlsNotify ==
    (done.pc = "done" /\ done.op \in {"toggle", "remove"})
        => done.toast.kind = (IF done.result.success THEN "success" ELSE "error")

\* The createTodo calls addTodo has issued and not yet run to its end for.
UnsettledCreates == {c \in calls : c.op = "create"}

\* C13: the Add control's loading flag is true only while a createTodo call
\* issued by addTodo is unsettled: once every addTodo call has settled and
\* addTodo has run to its end, with success or with failure, the flag is
\* false.
C13_LoadingOnlyWhileCreating ==
    UnsettledCreates = {} => loading = FALSE

\* C14: the status an applied toggle writes is a function of the status
\* argument taken from the displayed snapshot alone, completed if that is
\* pending and pending otherwise, whatever status the store holds; so two
\* toggles of an item issued from the same snapshot write the same status.
C14_ToggleWritesFromSnapshot ==
    /\ \A i \in 1..Len(toggleLog) :
          toggleLog[i].after =
              (IF toggleLog[i].snap = "pending" THEN "completed" ELSE "pending")
    /\ \A i, j \in 1..Len(toggleLog) :
          (toggleLog[i].id = toggleLog[j].id /\ toggleLog[i].snap = toggleLog[j].snap)
              => toggleLog[i].after = toggleLog[j].after

\* Two toggles of one item from the same snapshot, the second applied to a
\* store that no longer holds the status the snapshot showed.
C14_Witness ==
    /\ Len(toggleLog) = 2
    /\ toggleLog[1].id = toggleLog[2].id
    /\ toggleLog[1].snap = "pending" /\ toggleLog[2].snap = "pending"
    /\ toggleLog[1].before = "pending"
    /\ toggleLog[2].before = "completed"
    /\ toggleLog[2].after = "completed"

----------------------------------------------------------------------------
(* Specifications *)

InitUrl == InitUrlVars /\ IdleSyncVars /\ IdleAppVars

SpecUrl == InitUrl /\ [][NextUrl]_vars

InitSync == InitSyncVars /\ IdleUrlVars /\ IdleAppVars

SpecSync == InitSync /\ [][NextSync]_vars

\* The page is loaded on one of NavUrls against one of InitStores; the
\* synchronizer is left out.
InitApp ==
    /\ IdleUrlVars
    /\ url \in NavUrls
    /\ initUrl = url
    /\ now = 0
    /\ mounted = FALSE
    /\ query = EmptyStr
    /\ status = EmptyStr
    /\ effectRuns = 0
    /\ timers = {}
    /\ nChanges = 0
    /\ lastInput = [kind |-> "mount", at |-> 0]
    /\ burstLen = 0
    /\ commitsSince = 0
    /\ lastCommit = NoCommit
    /\ InitAppVars

SpecApp == InitApp /\ [][NextApp]_vars

SpecRead == InitApp /\ [][NextRead]_vars

====
